---- MODULE Spec2Model ----
(***************************************************************************)
(* Reconciliation engine of provider-aws-pcluster: the external client     *)
(* that drives the pcluster CLI (Connect / Observe / Create / Update /     *)
(* Delete, the dry-run up-to-date probe, the error classifier and the      *)
(* ephemeral workspace).  Each handler is split only where it blocks in    *)
(* cmd.CombinedOutput(): <Op>Start runs up to the invocation, <Op>Return   *)
(* receives the tool's response and runs the handler to its return.        *)
(*                                                                         *)
(* Strings that the code inspects by prefix are sequences of tokens: a     *)
(* fixed phrase of the CLI is one token, a resource name is a sequence of  *)
(* its characters, so that "t" is a proper prefix of "t2".                 *)
(***************************************************************************)
EXTENDS Integers, Sequences, FiniteSets, TLC

VARIABLES
    procPATH,        \* process-global PATH (os.Getenv / os.Setenv), a list of directories
    venv,            \* PYTHON_VENV_PATH: "unset", "absent" (set, no bin/pcluster), "present"
    fs,              \* temp directories that exist, with the config file written in them
    active,          \* the resources being reconciled
    pc,              \* per resource: "none" (no external client), "idle", or the blocked call
    ext,             \* per resource: the fields of its `external` struct
    cr,              \* per resource: Status.AtProvider and the availability condition
    doc,             \* per resource: Spec.ForProvider.ClusterConfiguration
    ws,              \* per resource: `dir`, the local of execute()
    describeOutput,  \* per resource: `describeOutput.OutputCluster`, the local of Observe()
    inv,             \* per resource: the invocations of the current or last operation
    classified,      \* per resource: the last call of getErrorStatus and what it returned
    materialized,    \* per resource: how createTempDir / writeConfigToFile last ended
    res,             \* per resource: what the last operation returned
    ops,             \* operations started while two resources are reconciled at once
    recording,       \* history: whether completed Observes are remembered in `last`
    last             \* history, per resource: the last completed Observe

vars == <<procPATH, venv, fs, active, pc, ext, cr, doc, ws, describeOutput, inv,
         classified, materialized, res, ops, recording, last>>

----------------------------------------------------------------------------
(* Bounds *)

MaxPath == 3        \* Connect is not taken once PATH holds this many entries
MaxPairOps == 3     \* operations started in all when two resources are reconciled at once
MaxRandLen == 2     \* length of the random suffix os.MkdirTemp appends

----------------------------------------------------------------------------
(* Resources *)

Engines == {1, 2}

\* metadata.name of the two resources; the first is a prefix of the second
Name(e) == IF e = 1 THEN <<"t">> ELSE <<"t", "2">>

Region(e) == "us-eastish"

\* Spec.ForProvider.ClusterConfiguration of the two resources; one is empty
Document(e) == IF e = 1 THEN <<"Image:", "Os: alinux2">> ELSE <<>>

clusterConfigFileName == "cluster-config.yaml"

NoDir == <<>>

HasPrefix(s, p) == Len(p) <= Len(s) /\ SubSeq(s, 1, Len(p)) = p

----------------------------------------------------------------------------
(* Constants of the controller *)

CreateInProgress == "CREATE_IN_PROGRESS"
CreateFailed == "CREATE_FAILED"
CreateComplete == "CREATE_COMPLETE"
DeleteInProgress == "DELETE_IN_PROGRESS"
DeleteFailed == "DELETE_FAILED"
DeleteComplete == "DELETE_COMPLETE"
UpdateInProgress == "UPDATE_IN_PROGRESS"
UpdateComplete == "UPDATE_COMPLETE"
UpdateFailed == "UPDATE_FAILED"

errPclusterCliNoChange == <<"Bad Request: No changes found in your cluster configuration.">>
errPClusterCliDryRun == <<"Request would have succeeded, but DryRun flag is set.">>
errPClusterCliInProgress == <<"Cannot execute update while stack is in">>
errStatusNotFound == "clusterNotFound"
errStatusEmpty == "emptyMessage"
errStatusUpToDate == "clusterUpToDate"
errStatusNotUpToDate == "clusterNotUpToDate"

\* fmt.Sprintf("Cluster '%s' does not exist", clusterName)
NotFoundText(clusterName) == <<"Cluster '">> \o clusterName \o <<"' does not exist">>

----------------------------------------------------------------------------
(* Payloads of the CLI *)

\* OutputCluster, the four fields setStatus copies
OutputCluster(name, arn, status, sched) ==
    [ClusterName |-> name, CloudformationStackArn |-> arn,
     ClusterStatus |-> status, SchedulerType |-> sched]

ZeroCluster == OutputCluster(<<>>, "", "", "")

KnownStatuses ==
    {CreateInProgress, CreateFailed, CreateComplete,
     DeleteInProgress, DeleteFailed, DeleteComplete,
     UpdateInProgress, UpdateComplete, UpdateFailed}

Suffix == <<" state">>

\* messages the tool may put in {"message": ...}
Messages ==
    UNION {{NotFoundText(Name(e)), NotFoundText(Name(e)) \o Suffix} : e \in Engines}
    \cup {<<"Cluster '">> \o Name(1),
          errPclusterCliNoChange, errPclusterCliNoChange \o Suffix,
          errPClusterCliInProgress, errPClusterCliInProgress \o Suffix,
          errPClusterCliDryRun, errPClusterCliDryRun \o Suffix,
          Suffix, <<>>}

\* kind: "empty"     zero bytes
\*       "garbage"   bytes that are not JSON
\*       "msg"       {"message": <msg>}
\*       "msgtype"   {"message": 5}
\*       "describe"  the flat describe-cluster object
\*       "badtime"   the flat object with a creationTime that is not a time
\*       "badstatus" the flat object with a clusterStatus that is not a string
\*       "envelope"  {"cluster": {...}}
\*       "badenvelope" {"cluster": {...}} with a clusterStatus that is not a string
Payload(kind, msg, cluster) == [kind |-> kind, msg |-> msg, cluster |-> cluster]

EmptyPayload == Payload("empty", <<>>, ZeroCluster)
GarbagePayload == Payload("garbage", <<>>, ZeroCluster)
MsgPayload(m) == Payload("msg", m, ZeroCluster)
ClusterOf(e, status) == OutputCluster(Name(e), "arn:stack", status, "slurm")

ErrPayloads ==
    {MsgPayload(m) : m \in Messages}
    \cup {Payload("msgtype", <<>>, ZeroCluster), GarbagePayload, EmptyPayload}

DescribePayloads(e) ==
    {Payload("describe", <<>>, ClusterOf(e, s)) : s \in KnownStatuses \cup {""}}
    \cup {Payload("badtime", <<>>, ClusterOf(e, CreateComplete)),
          Payload("badstatus", <<>>, ClusterOf(e, CreateComplete)),
          GarbagePayload, EmptyPayload}

EnvelopePayloads(e, status) ==
    {Payload("envelope", <<>>, ClusterOf(e, status)),
     Payload("badenvelope", <<>>, ClusterOf(e, status)),
     Payload("envelope", <<>>, ZeroCluster),
     GarbagePayload, EmptyPayload}

Response(exit, payload) == [exit |-> exit, payload |-> payload]

\* the process could not be started: no output, an error
StartFailure == Response(1, EmptyPayload)

----------------------------------------------------------------------------
(* Decoding (encoding/json) *)

\* json.Unmarshal(cmdOutput, &pErr) with pErr an errorOutput
UnmarshalErrorOutput(p) ==
    IF p.kind \in {"empty", "garbage", "msgtype"}
    THEN [err |-> TRUE, Message |-> <<>>]
    ELSE IF p.kind = "msg"
    THEN [err |-> FALSE, Message |-> p.msg]
    ELSE [err |-> FALSE, Message |-> <<>>]

\* json.Unmarshal(output, &describeOutput.OutputCluster), whose error is
\* overwritten, then json.Unmarshal(output, &describeOutput): the embedded
\* OutputCluster is tagged `json:"inline"`, so the second call fills none of
\* its fields and reports no error about them.
UnmarshalDescribe(p) ==
    LET first == IF p.kind \in {"describe", "badtime"} THEN p.cluster
                 ELSE IF p.kind = "badstatus"
                 THEN [p.cluster EXCEPT !.ClusterStatus = ""]
                 ELSE ZeroCluster
    IN  [err |-> p.kind \in {"empty", "garbage", "badtime"}, cluster |-> first]

\* json.Unmarshal(output, &createOutput) and its update / delete twins
UnmarshalEnvelope(p) ==
    IF p.kind \in {"empty", "garbage"}
    THEN [err |-> TRUE, cluster |-> ZeroCluster]
    ELSE IF p.kind = "envelope"
    THEN [err |-> FALSE, cluster |-> p.cluster]
    ELSE IF p.kind = "badenvelope"
    THEN [err |-> TRUE, cluster |-> [p.cluster EXCEPT !.ClusterStatus = ""]]
    ELSE [err |-> FALSE, cluster |-> ZeroCluster]

\* len(output) > 0
NonEmpty(p) == p.kind # "empty"

----------------------------------------------------------------------------
(* Error classifier *)

\* the not-found message matched by equality instead of by prefix
getErrorStatus_exactNotFound(cmdOutput, clusterName) ==
    LET pErr == UnmarshalErrorOutput(cmdOutput)
        msg == pErr.Message
    IN  IF pErr.err
        THEN [status |-> "", err |-> TRUE]
        ELSE IF msg = NotFoundText(clusterName)
        THEN [status |-> errStatusNotFound, err |-> FALSE]
        ELSE IF msg = errPclusterCliNoChange \/ HasPrefix(msg, errPClusterCliInProgress)
        THEN [status |-> errStatusUpToDate, err |-> FALSE]
        ELSE IF msg = errPClusterCliDryRun
        THEN [status |-> errStatusNotUpToDate, err |-> FALSE]
        ELSE [status |-> errStatusEmpty, err |-> FALSE]

\* the not-found prefix cut after the cluster name
getErrorStatus_openQuote(cmdOutput, clusterName) ==
    LET pErr == UnmarshalErrorOutput(cmdOutput)
        msg == pErr.Message
    IN  IF pErr.err
        THEN [status |-> "", err |-> TRUE]
        ELSE IF HasPrefix(msg, <<"Cluster '">> \o clusterName)
        THEN [status |-> errStatusNotFound, err |-> FALSE]
        ELSE IF msg = errPclusterCliNoChange \/ HasPrefix(msg, errPClusterCliInProgress)
        THEN [status |-> errStatusUpToDate, err |-> FALSE]
        ELSE IF msg = errPClusterCliDryRun
        THEN [status |-> errStatusNotUpToDate, err |-> FALSE]
        ELSE [status |-> errStatusEmpty, err |-> FALSE]

\* the in-progress message matched by equality instead of by prefix
getErrorStatus_exactInProgress(cmdOutput, clusterName) ==
    LET pErr == UnmarshalErrorOutput(cmdOutput)
        msg == pErr.Message
    IN  IF pErr.err
        THEN [status |-> "", err |-> TRUE]
        ELSE IF HasPrefix(msg, NotFoundText(clusterName))
        THEN [status |-> errStatusNotFound, err |-> FALSE]
        ELSE IF msg = errPclusterCliNoChange \/ msg = errPClusterCliInProgress
        THEN [status |-> errStatusUpToDate, err |-> FALSE]
        ELSE IF msg = errPClusterCliDryRun
        THEN [status |-> errStatusNotUpToDate, err |-> FALSE]
        ELSE [status |-> errStatusEmpty, err |-> FALSE]

getErrorStatus(cmdOutput, clusterName) ==
    LET pErr == UnmarshalErrorOutput(cmdOutput)
        msg == pErr.Message
    IN  IF pErr.err
        THEN [status |-> "", err |-> TRUE]
        ELSE IF HasPrefix(msg, NotFoundText(clusterName))
        THEN [status |-> errStatusNotFound, err |-> FALSE]
        ELSE IF msg = errPclusterCliNoChange \/ HasPrefix(msg, errPClusterCliInProgress)
        THEN [status |-> errStatusUpToDate, err |-> FALSE]
        ELSE IF msg = errPClusterCliDryRun
        THEN [status |-> errStatusNotUpToDate, err |-> FALSE]
        ELSE [status |-> errStatusEmpty, err |-> FALSE]

----------------------------------------------------------------------------
(* Up-to-date probe and status mapping *)

\* every status but "up to date" taken as up to date
isUpToDate_inverted(output, failed, clusterName) ==
    IF failed /\ NonEmpty(output)
    THEN LET s == getErrorStatus(output, clusterName)
         IN  IF s.err
             THEN [val |-> FALSE, err |-> TRUE]
             ELSE IF s.status # errStatusUpToDate
             THEN [val |-> TRUE, err |-> FALSE]
             ELSE [val |-> FALSE, err |-> FALSE]
    ELSE [val |-> FALSE, err |-> failed]

\* isUpToDate from the return of c.execute on: `output`, and `failed` (err != nil)
isUpToDate(output, failed, clusterName) ==
    IF failed /\ NonEmpty(output)
    THEN LET s == getErrorStatus(output, clusterName)
         IN  IF s.err
             THEN [val |-> FALSE, err |-> TRUE]
             ELSE IF s.status = errStatusUpToDate
             THEN [val |-> TRUE, err |-> FALSE]
             ELSE [val |-> FALSE, err |-> FALSE]
    ELSE [val |-> FALSE, err |-> failed]

\* DeleteComplete in the case of DeleteFailed, and the reverse
ResourceExists_deleteSwapped(status) ==
    status \in {CreateInProgress, UpdateInProgress, DeleteInProgress,
                CreateComplete, UpdateComplete, UpdateFailed, DeleteComplete}

\* eo.ResourceExists after the switch of Observe
ResourceExists(status) ==
    status \in {CreateInProgress, UpdateInProgress, DeleteInProgress,
                CreateComplete, UpdateComplete, UpdateFailed, DeleteFailed}

\* Unavailable set before the switch, as the older Observe did
SetConditions_unavailableFirst(status, old) ==
    IF status \in {CreateComplete, UpdateComplete} THEN "Available"
    ELSE "Unavailable"

\* the availability condition after the switch of Observe
SetConditions(status, old) ==
    IF status \in {CreateComplete, UpdateComplete} THEN "Available"
    ELSE IF status \in {UpdateFailed, DeleteFailed} THEN "Unavailable"
    ELSE old

\* setStatus without its SchedulerType line
setStatus_noSchedulerType(output, atProvider) ==
    [atProvider EXCEPT !.ClusterStatus = output.ClusterStatus,
                       !.CloudformationStackArn = output.CloudformationStackArn,
                       !.ClusterName = output.ClusterName]

\* setStatus with the cluster name appended to the stored one, not assigned
setStatus_appendsName(output, atProvider) ==
    [atProvider EXCEPT !.ClusterStatus = output.ClusterStatus,
                       !.CloudformationStackArn = output.CloudformationStackArn,
                       !.SchedulerType = output.SchedulerType,
                       !.ClusterName = @ \o output.ClusterName]

\* cluster.Status.AtProvider after setStatus(output, cluster)
setStatus(output, atProvider) ==
    [atProvider EXCEPT !.ClusterStatus = output.ClusterStatus,
                       !.CloudformationStackArn = output.CloudformationStackArn,
                       !.SchedulerType = output.SchedulerType,
                       !.ClusterName = output.ClusterName]

----------------------------------------------------------------------------
(* Workspace and process environment *)

\* the characters of the random suffix; "2" is also the last character of the
\* second resource's name, so that two prefixes can spell the same directory
Digits == {"2"}

RECURSIVE SeqsOfLen(_)
SeqsOfLen(n) ==
    IF n = 0 THEN {<<>>}
    ELSE {<<d>> \o s : d \in Digits, s \in SeqsOfLen(n - 1)}

\* the suffixes os.MkdirTemp may append to the prefix
Rands == UNION {SeqsOfLen(n) : n \in 1..MaxRandLen}

Dirs(files) == {f.dir : f \in files}

\* os.Remove(dir), which leaves a directory that is not empty
RemoveAll_asRemove(files, dir) == {f \in files : f.dir # dir \/ f.hasFile}

\* os.RemoveAll(dir)
RemoveAll(files, dir) == {f \in files : f.dir # dir}

\* writeConfigToFile returning early, with no file, for an empty document
WrittenDir_skipsEmpty(dir, input, outcome) ==
    [dir |-> dir,
     hasFile |-> outcome # "createfail" /\ input # <<>>,
     content |-> IF outcome = "ok" THEN input ELSE <<>>]

\* the directory as writeConfigToFile leaves it
\*   "ok": the file holds `input`; "createfail": os.Create failed;
\*   "writefail": the file exists, Write failed
WrittenDir(dir, input, outcome) ==
    [dir |-> dir,
     hasFile |-> outcome # "createfail",
     content |-> IF outcome = "ok" THEN input ELSE <<>>]

\* writeConfigToFile's error goes unchecked
Proceeds_ignoresWriteError(outcome) == outcome \in {"ok", "createfail", "writefail"}

\* execute goes on to execPcluster only when writeConfigToFile returned no error
Proceeds(outcome) == outcome = "ok"

\* directories of PATH that hold a pcluster executable
ToolDirs == {"/usr/bin"} \cup (IF venv = "present" THEN {"/venv/bin"} ELSE {})

\* exec.LookPath("pcluster") under the process PATH `path`
LookPath(path) == \E i \in 1..Len(path) : path[i] \in ToolDirs

\* getVEnvPath without the os.Stat of <venv>/bin/pcluster
getVEnvPath_noStat ==
    IF venv = "unset" THEN [err |-> FALSE, path |-> <<>>]
    ELSE [err |-> FALSE, path |-> <<"/venv/bin">> \o procPATH]

\* getVEnvPath: the PATH to use, "" when PYTHON_VENV_PATH is unset
getVEnvPath ==
    IF venv = "unset" THEN [err |-> FALSE, path |-> <<>>]
    ELSE IF venv = "absent" THEN [err |-> TRUE, path |-> <<>>]
    ELSE [err |-> FALSE, path |-> <<"/venv/bin">> \o procPATH]

\* PATH as the child process sees it: the last PATH entry of c.env
ChildPath(x) == IF x.env.appended # <<>> THEN x.env.appended ELSE x.env.ambient

ZeroExternal == [dir |-> NoDir, env |-> [ambient |-> <<>>, appended |-> <<>>], path |-> <<>>]

----------------------------------------------------------------------------
(* External invocations *)

NoResponse == Response(0, EmptyPayload)

\* describe-cluster called without the name
Invocation_describeNoName(e, verb, dryrun, region, config, x, files) ==
    [verb |-> verb, dryrun |-> dryrun,
     name |-> IF verb = "describe-cluster" THEN <<>> ELSE Name(e),
     region |-> region,
     config |-> config, dir |-> x.dir, path |-> ChildPath(x),
     started |-> LookPath(x.path) /\ (x.dir = NoDir \/ x.dir \in Dirs(files)),
     killed |-> FALSE, returned |-> FALSE, resp |-> NoResponse]

\* the probe's arguments without --dryrun true
Invocation_noDryrun(e, verb, dryrun, region, config, x, files) ==
    [verb |-> verb, dryrun |-> FALSE, name |-> Name(e), region |-> region,
     config |-> config, dir |-> x.dir, path |-> ChildPath(x),
     started |-> LookPath(x.path) /\ (x.dir = NoDir \/ x.dir \in Dirs(files)),
     killed |-> FALSE, returned |-> FALSE, resp |-> NoResponse]

\* what execPcluster hands to the executor, with `x` the external struct and
\* `files` the file system at that moment.  `started`: exec.LookPath finds
\* pcluster under the process PATH just set, and cmd.Dir is unset or exists;
\* `killed`: ctx was cancelled while the command ran.
Invocation(e, verb, dryrun, region, config, x, files) ==
    [verb |-> verb, dryrun |-> dryrun, name |-> Name(e), region |-> region,
     config |-> config, dir |-> x.dir, path |-> ChildPath(x),
     started |-> LookPath(x.path) /\ (x.dir = NoDir \/ x.dir \in Dirs(files)),
     killed |-> FALSE, returned |-> FALSE, resp |-> NoResponse]

\* the responses cmd.CombinedOutput() may return to invocation `i`
ErrorResponses == {Response(1, p) : p \in ErrPayloads}

DescribeResponses(e) ==
    {Response(0, p) : p \in DescribePayloads(e)} \cup ErrorResponses

ProbeResponses(e) ==
    ErrorResponses
    \cup {Response(0, Payload("envelope", <<>>, ClusterOf(e, UpdateInProgress))),
          Response(0, EmptyPayload)}

MutationResponses(e, status) ==
    {Response(0, p) : p \in EnvelopePayloads(e, status)}
    \cup {Response(1, MsgPayload(Suffix)), Response(1, EmptyPayload)}

\* the responses kept when two resources are reconciled at once: a failure
\* with no output, the no-change message, and the payloads of a healthy cluster
FewResponses ==
    {Response(1, EmptyPayload), Response(1, MsgPayload(errPclusterCliNoChange))}
    \cup {Response(0, Payload("describe", <<>>, ClusterOf(e, CreateComplete))) : e \in Engines}
    \cup {Response(0, Payload("envelope", <<>>, ClusterOf(e, CreateInProgress))) : e \in Engines}

\* a command that could not start returns at once; one that was killed when
\* ctx was cancelled returns an error, with whatever it had printed
Responses(i, all) ==
    IF ~i.started THEN {StartFailure}
    ELSE IF i.killed THEN {r \in all : r.exit # 0}
    ELSE IF Cardinality(active) > 1 THEN all \cap FewResponses
    ELSE all

\* the output is taken while the command is left running
Returned_notAwaited(i, r) == [i EXCEPT !.resp = r]

\* invocation i once cmd.CombinedOutput() has returned r
Returned(i, r) == [i EXCEPT !.returned = TRUE, !.resp = r]

----------------------------------------------------------------------------
(* Results *)

Result(op, err, exists, upToDate) ==
    [op |-> op, err |-> err, exists |-> exists, upToDate |-> upToDate]

NoResult == Result("none", FALSE, FALSE, FALSE)

\* a call getErrorStatus(cmdOutput, clusterName) with the pair it returned
Classified(cmdOutput, clusterName) ==
    [called |-> TRUE, cmdOutput |-> cmdOutput, clusterName |-> clusterName,
     status |-> getErrorStatus(cmdOutput, clusterName).status,
     err |-> getErrorStatus(cmdOutput, clusterName).err]

NotClassified ==
    [called |-> FALSE, cmdOutput |-> EmptyPayload, clusterName |-> <<>>,
     status |-> "", err |-> FALSE]

Failure(op) == Result(op, TRUE, FALSE, FALSE)

ZeroStatus == [atProvider |-> ZeroCluster, condition |-> "None"]

Workspaced == {"probe", "create", "update", "delete"}

\* the responses the commands of an operation returned, in order
Resps(invocations) == [i \in 1..Len(invocations) |-> invocations[i].resp]

NoObservation ==
    [valid |-> FALSE, again |-> FALSE, resps |-> <<>>, res |-> NoResult, cr |-> ZeroStatus]

\* when Observe returns in this step and Observes are recorded: its responses,
\* what it returned and what it left on the resource; `again` says that the
\* Observe recorded before it got the same responses
Remember(e) ==
    last' = [last EXCEPT ![e] =
        IF recording /\ pc'[e] = "idle"
        THEN [valid |-> TRUE,
              again |-> @.valid /\ @.resps = Resps(inv'[e]),
              resps |-> Resps(inv'[e]),
              res |-> res'[e],
              cr |-> cr'[e]]
        ELSE @]

----------------------------------------------------------------------------
(* Initial state: the provider process has started, nothing is connected *)

Constructed ==
    /\ procPATH = <<"/usr/bin">>
    /\ venv \in {"unset", "absent", "present"}
    /\ fs = {}
    /\ active \in SUBSET Engines \ {{}}
    /\ pc = [e \in Engines |-> "none"]
    /\ ext = [e \in Engines |-> ZeroExternal]
    /\ cr = [e \in Engines |-> ZeroStatus]
    /\ doc = [e \in Engines |-> Document(e)]
    /\ ws = [e \in Engines |-> NoDir]
    /\ describeOutput = [e \in Engines |-> ZeroCluster]
    /\ inv = [e \in Engines |-> <<>>]
    /\ classified = [e \in Engines |-> NotClassified]
    /\ materialized = [e \in Engines |-> "none"]
    /\ res = [e \in Engines |-> NoResult]
    /\ last = [e \in Engines |-> NoObservation]
    /\ ops = 0

\* one resource is reconciled
Init == Constructed /\ Cardinality(active) = 1 /\ recording = FALSE

\* both resources are reconciled at once, each by its own external client
InitPair == Constructed /\ active = Engines /\ venv = "present" /\ recording = FALSE

\* the same start for the first resource, with every completed Observe
\* remembered for comparison
InitRecording == Constructed /\ active = {1} /\ recording = TRUE

\* several resources are reconciled at once
Concurrent == Cardinality(active) > 1

\* another operation may be started
MayStart == Concurrent => ops < MaxPairOps

Counted == ops' = IF Concurrent THEN ops + 1 ELSE ops

----------------------------------------------------------------------------
(* connector.Connect *)

Connect(e) ==
    /\ e \in active
    /\ pc[e] \in {"none", "idle"}
    /\ Len(procPATH) < MaxPath
    /\ LET v == getVEnvPath IN
        IF v.err
        THEN /\ pc' = [pc EXCEPT ![e] = "none"]
             /\ ext' = [ext EXCEPT ![e] = ZeroExternal]
             /\ res' = [res EXCEPT ![e] = Failure("Connect")]
        ELSE /\ pc' = [pc EXCEPT ![e] = "idle"]
             /\ ext' = [ext EXCEPT ![e] =
                    [dir |-> NoDir,
                     env |-> [ambient |-> procPATH, appended |-> v.path],
                     path |-> v.path]]
             /\ res' = [res EXCEPT ![e] = Result("Connect", FALSE, FALSE, FALSE)]
    /\ inv' = [inv EXCEPT ![e] = <<>>]
    /\ classified' = [classified EXCEPT ![e] = NotClassified]
    /\ materialized' = [materialized EXCEPT ![e] = "none"]
    /\ UNCHANGED last
    /\ UNCHANGED <<procPATH, venv, ops, recording, fs, active, cr, doc, ws, describeOutput>>

----------------------------------------------------------------------------
(* external.execute, up to the blocking call *)

\* `op` is the handler that called execute, `past` the invocations it made
\* before, `next` the pc while the command runs.
execute(e, op, past, verb, dryrun, region, next) ==
    \/ \* createTempDir fails
       /\ materialized' = [materialized EXCEPT ![e] = "mkdirfail"]
       /\ pc' = [pc EXCEPT ![e] = "idle"]
       /\ res' = [res EXCEPT ![e] = Failure(op)]
       /\ inv' = [inv EXCEPT ![e] = past]
       /\ UNCHANGED <<procPATH, fs, ext, ws>>
    \/ \* the directory is made and writeConfigToFile ends with `outcome`
       \E rnd \in Rands, outcome \in {"ok", "createfail", "writefail"} :
         LET dir == Name(e) \o rnd
             x == [ext[e] EXCEPT !.dir = dir]
             files == fs \cup {WrittenDir(dir, doc[e], outcome)}
         IN
         /\ dir \notin Dirs(fs)
         /\ materialized' = [materialized EXCEPT ![e] = outcome]
         /\ ext' = [ext EXCEPT ![e] = x]
         /\ IF Proceeds(outcome)
            THEN \* execPcluster sets PATH and runs the command
                 /\ fs' = files
                 /\ ws' = [ws EXCEPT ![e] = dir]
                 /\ procPATH' = x.path
                 /\ inv' = [inv EXCEPT ![e] =
                        Append(past, Invocation(e, verb, dryrun, region,
                                                verb # "delete-cluster", x, files))]
                 /\ pc' = [pc EXCEPT ![e] = next]
                 /\ res' = [res EXCEPT ![e] = NoResult]
            ELSE \* the error is returned; the deferred os.RemoveAll runs
                 /\ fs' = RemoveAll(files, dir)
                 /\ pc' = [pc EXCEPT ![e] = "idle"]
                 /\ res' = [res EXCEPT ![e] = Failure(op)]
                 /\ inv' = [inv EXCEPT ![e] = past]
                 /\ UNCHANGED <<procPATH, ws>>

----------------------------------------------------------------------------
(* external.Observe *)

ObserveStart(e) ==
    /\ e \in active
    /\ pc[e] = "idle"
    /\ MayStart
    /\ procPATH' = ext[e].path
    /\ inv' = [inv EXCEPT ![e] =
           <<Invocation(e, "describe-cluster", FALSE, "", FALSE, ext[e], fs)>>]
    /\ pc' = [pc EXCEPT ![e] = "describe"]
    /\ res' = [res EXCEPT ![e] = NoResult]
    /\ describeOutput' = [describeOutput EXCEPT ![e] = ZeroCluster]
    /\ classified' = [classified EXCEPT ![e] = NotClassified]
    /\ materialized' = [materialized EXCEPT ![e] = "none"]
    /\ UNCHANGED last
    /\ Counted
    /\ UNCHANGED <<venv, recording, fs, active, ext, cr, doc, ws>>

\* describe-cluster returns; Observe runs on into isUpToDate and execute
DescribeReturn(e) ==
    /\ e \in active
    /\ pc[e] = "describe"
    /\ \E r \in Responses(inv[e][1], DescribeResponses(e)) :
        LET past == <<Returned(inv[e][1], r)>>
            status == getErrorStatus(r.payload, Name(e)).status
            d == UnmarshalDescribe(r.payload)
        IN
        \/ /\ r.exit # 0
           /\ classified' = [classified EXCEPT ![e] = Classified(r.payload, Name(e))]
           /\ pc' = [pc EXCEPT ![e] = "idle"]
           /\ res' = [res EXCEPT ![e] =
                  IF status = errStatusNotFound
                  THEN Result("Observe", FALSE, FALSE, FALSE)
                  ELSE Failure("Observe")]
           /\ inv' = [inv EXCEPT ![e] = past]
           /\ UNCHANGED <<procPATH, fs, ext, ws, describeOutput, materialized>>
        \/ /\ r.exit = 0
           /\ d.err
           /\ classified' = classified
           /\ pc' = [pc EXCEPT ![e] = "idle"]
           /\ res' = [res EXCEPT ![e] = Failure("Observe")]
           /\ inv' = [inv EXCEPT ![e] = past]
           /\ UNCHANGED <<procPATH, fs, ext, ws, describeOutput, materialized>>
        \/ /\ r.exit = 0
           /\ ~d.err
           /\ classified' = classified
           /\ execute(e, "Observe", past, "update-cluster", TRUE, "", "probe")
           /\ describeOutput' = [describeOutput EXCEPT ![e] =
                  IF pc'[e] = "probe" THEN d.cluster ELSE ZeroCluster]
    /\ UNCHANGED <<venv, ops, recording, active, cr, doc>>
    /\ Remember(e)

\* the dry-run update returns; isUpToDate and the rest of Observe run
ProbeReturn(e) ==
    /\ e \in active
    /\ pc[e] = "probe"
    /\ \E r \in Responses(inv[e][2], ProbeResponses(e)) :
        LET u == isUpToDate(r.payload, r.exit # 0, Name(e))
            status == describeOutput[e].ClusterStatus
        IN
        /\ inv' = [inv EXCEPT ![e][2] = Returned(@, r)]
        /\ classified' = [classified EXCEPT ![e] =
               IF r.exit # 0 /\ NonEmpty(r.payload)
               THEN Classified(r.payload, Name(e)) ELSE @]
        /\ IF u.err
           THEN /\ res' = [res EXCEPT ![e] = Failure("Observe")]
                /\ cr' = cr
           ELSE /\ res' = [res EXCEPT ![e] =
                       Result("Observe", FALSE, ResourceExists(status), u.val)]
                /\ cr' = [cr EXCEPT ![e] =
                       [atProvider |-> setStatus(describeOutput[e], @.atProvider),
                        condition |-> SetConditions(status, @.condition)]]
    /\ fs' = RemoveAll(fs, ws[e])
    /\ ws' = [ws EXCEPT ![e] = NoDir]
    /\ pc' = [pc EXCEPT ![e] = "idle"]
    /\ describeOutput' = [describeOutput EXCEPT ![e] = ZeroCluster]
    /\ UNCHANGED <<procPATH, venv, ops, recording, active, ext, doc, materialized>>
    /\ Remember(e)

----------------------------------------------------------------------------
(* external.Create, external.Update, external.Delete *)

CreateStart(e) ==
    /\ e \in active
    /\ pc[e] = "idle"
    /\ MayStart
    /\ execute(e, "Create", <<>>, "create-cluster", FALSE, Region(e), "create")
    /\ classified' = [classified EXCEPT ![e] = NotClassified]
    /\ last' = [last EXCEPT ![e] = NoObservation]
    /\ Counted
    /\ UNCHANGED <<venv, recording, active, cr, doc, describeOutput>>

\* setStatus called on what json.Unmarshal left, before its error is looked at
CreateAtProvider_beforeErrCheck(r, atProvider) ==
    IF r.exit # 0
    THEN atProvider
    ELSE setStatus(UnmarshalEnvelope(r.payload).cluster, atProvider)

\* cluster.Status.AtProvider when Create returns: setStatus is reached only
\* past the two error returns
CreateAtProvider(r, atProvider) ==
    IF r.exit # 0 \/ UnmarshalEnvelope(r.payload).err
    THEN atProvider
    ELSE setStatus(UnmarshalEnvelope(r.payload).cluster, atProvider)

CreateReturn(e) ==
    /\ e \in active
    /\ pc[e] = "create"
    /\ \E r \in Responses(inv[e][1], MutationResponses(e, CreateInProgress)) :
        LET createOutput == UnmarshalEnvelope(r.payload) IN
        /\ inv' = [inv EXCEPT ![e][1] = Returned(@, r)]
        /\ res' = [res EXCEPT ![e] =
               IF r.exit # 0 \/ createOutput.err
               THEN Failure("Create")
               ELSE Result("Create", FALSE, FALSE, FALSE)]
        /\ cr' = [cr EXCEPT ![e].atProvider = CreateAtProvider(r, @)]
    /\ fs' = RemoveAll(fs, ws[e])
    /\ ws' = [ws EXCEPT ![e] = NoDir]
    /\ pc' = [pc EXCEPT ![e] = "idle"]
    /\ UNCHANGED last
    /\ UNCHANGED <<procPATH, venv, ops, recording, active, ext, doc, describeOutput, classified, materialized>>

UpdateStart(e) ==
    /\ e \in active
    /\ pc[e] = "idle"
    /\ MayStart
    /\ execute(e, "Update", <<>>, "update-cluster", FALSE, Region(e), "update")
    /\ classified' = [classified EXCEPT ![e] = NotClassified]
    /\ last' = [last EXCEPT ![e] = NoObservation]
    /\ Counted
    /\ UNCHANGED <<venv, recording, active, cr, doc, describeOutput>>

\* Update decodes the output and only logs the change set
UpdateReturn(e) ==
    /\ e \in active
    /\ pc[e] = "update"
    /\ \E r \in Responses(inv[e][1], MutationResponses(e, UpdateInProgress)) :
        LET updateOutput == UnmarshalEnvelope(r.payload) IN
        /\ inv' = [inv EXCEPT ![e][1] = Returned(@, r)]
        /\ res' = [res EXCEPT ![e] =
               IF r.exit # 0 \/ updateOutput.err
               THEN Failure("Update")
               ELSE Result("Update", FALSE, FALSE, FALSE)]
    /\ fs' = RemoveAll(fs, ws[e])
    /\ ws' = [ws EXCEPT ![e] = NoDir]
    /\ pc' = [pc EXCEPT ![e] = "idle"]
    /\ UNCHANGED last
    /\ UNCHANGED <<procPATH, venv, ops, recording, active, ext, cr, doc, describeOutput, classified,
                   materialized>>

DeleteStart(e) ==
    /\ e \in active
    /\ pc[e] = "idle"
    /\ MayStart
    /\ execute(e, "Delete", <<>>, "delete-cluster", FALSE, Region(e), "delete")
    /\ classified' = [classified EXCEPT ![e] = NotClassified]
    /\ last' = [last EXCEPT ![e] = NoObservation]
    /\ Counted
    /\ UNCHANGED <<venv, recording, active, cr, doc, describeOutput>>

\* Delete decodes the output and only logs it
DeleteReturn(e) ==
    /\ e \in active
    /\ pc[e] = "delete"
    /\ \E r \in Responses(inv[e][1], MutationResponses(e, DeleteInProgress)) :
        LET deleteOutput == UnmarshalEnvelope(r.payload) IN
        /\ inv' = [inv EXCEPT ![e][1] = Returned(@, r)]
        /\ res' = [res EXCEPT ![e] =
               IF r.exit # 0 \/ deleteOutput.err
               THEN Failure("Delete")
               ELSE Result("Delete", FALSE, FALSE, FALSE)]
    /\ fs' = RemoveAll(fs, ws[e])
    /\ ws' = [ws EXCEPT ![e] = NoDir]
    /\ pc' = [pc EXCEPT ![e] = "idle"]
    /\ UNCHANGED last
    /\ UNCHANGED <<procPATH, venv, ops, recording, active, ext, cr, doc, describeOutput, classified,
                   materialized>>

----------------------------------------------------------------------------
(* Cancellation of the context handed to CommandContext *)

\* ctx is cancelled while resource e's command runs: the executor kills it
Cancel(e) ==
    /\ e \in active
    /\ pc[e] \in {"describe", "probe", "create", "update", "delete"}
    /\ inv[e][Len(inv[e])].started
    /\ ~inv[e][Len(inv[e])].killed
    /\ inv' = [inv EXCEPT ![e][Len(inv[e])].killed = TRUE]
    /\ UNCHANGED <<procPATH, venv, fs, active, pc, ext, cr, doc, ws, describeOutput,
                   classified, materialized, res, ops, recording, last>>

----------------------------------------------------------------------------
(* Specification *)

Next ==
    \E e \in Engines :
        \/ Connect(e)
        \/ ObserveStart(e)
        \/ DescribeReturn(e)
        \/ ProbeReturn(e)
        \/ CreateStart(e)
        \/ CreateReturn(e)
        \/ UpdateStart(e)
        \/ UpdateReturn(e)
        \/ DeleteStart(e)
        \/ DeleteReturn(e)
        \/ Cancel(e)

Spec == Init /\ [][Next]_vars

SpecRecording == InitRecording /\ [][Next]_vars

SpecPair == InitPair /\ [][Next]_vars

----------------------------------------------------------------------------
(* Properties *)

\* the describe-cluster call of resource e's operation has returned
Described(e) ==
    /\ Len(inv[e]) >= 1
    /\ inv[e][1].verb = "describe-cluster"
    /\ inv[e][1].returned

\* describe-cluster exited zero with the flat object carrying status s
DescribedAs(e, s) ==
    /\ Described(e)
    /\ inv[e][1].resp.exit = 0
    /\ inv[e][1].resp.payload.kind = "describe"
    /\ inv[e][1].resp.payload.cluster.ClusterStatus = s

\* the dry-run update of resource e's Observe has returned
Probed(e) ==
    /\ Len(inv[e]) = 2
    /\ inv[e][2].dryrun
    /\ inv[e][2].returned

\* the dry-run update exited non-zero with {"message": m}
ProbedMessage(e, m) ==
    /\ Probed(e)
    /\ inv[e][2].resp.exit # 0
    /\ inv[e][2].resp.payload.kind = "msg"
    /\ inv[e][2].resp.payload.msg = m

\* Observe has returned without error
Observed(e) == res[e].op = "Observe" /\ ~res[e].err

ExistingStatuses ==
    {"CREATE_IN_PROGRESS", "UPDATE_IN_PROGRESS", "DELETE_IN_PROGRESS",
     "CREATE_COMPLETE", "UPDATE_COMPLETE", "UPDATE_FAILED", "DELETE_FAILED"}

AbsentStatuses == {"CREATE_FAILED", "DELETE_COMPLETE"}

\* C1: when describe-cluster succeeds with one of the nine statuses and Observe
\* returns without error, exists is true for the seven existing statuses and
\* false for CreateFailed and DeleteComplete; the condition is Available for
\* the two Complete statuses and Unavailable for UpdateFailed and DeleteFailed.
C1_StatusTable ==
    \A e \in Engines : \A s \in ExistingStatuses \cup AbsentStatuses :
        (Observed(e) /\ DescribedAs(e, s)) =>
            /\ res[e].exists = (s \in ExistingStatuses)
            /\ s \in {"CREATE_COMPLETE", "UPDATE_COMPLETE"} => cr[e].condition = "Available"
            /\ s \in {"UPDATE_FAILED", "DELETE_FAILED"} => cr[e].condition = "Unavailable"

C1_Witness ==
    \E e \in Engines :
        /\ Observed(e) /\ DescribedAs(e, "DELETE_COMPLETE") /\ ~res[e].exists
        /\ cr[e].condition = "Available"

\* C2: when describe-cluster succeeds with CreateFailed or DeleteComplete, the
\* Observe makes no update-cluster --dryrun true invocation.
C2_ProbeOnlyWhenExists ==
    \A e \in Engines : \A s \in AbsentStatuses :
        DescribedAs(e, s) => \A i \in 1..Len(inv[e]) : ~inv[e][i].dryrun

\* C3: an observation returned without error has upToDate only with exists.
C3_UpToDateImpliesExists ==
    \A e \in Engines : Observed(e) => (res[e].upToDate => res[e].exists)

\* C4: with an existing status from describe-cluster and a dry-run update that
\* exits non-zero, Observe returns without error, upToDate true for the
\* "no changes found" message and false for the "DryRun flag is set" message.
C4_ProbeSentinels ==
    \A e \in Engines : \A s \in ExistingStatuses :
        /\ (res[e].op = "Observe" /\ DescribedAs(e, s)
              /\ ProbedMessage(e, <<"Bad Request: No changes found in your cluster configuration.">>))
            => (~res[e].err /\ res[e].exists /\ res[e].upToDate)
        /\ (res[e].op = "Observe" /\ DescribedAs(e, s)
              /\ ProbedMessage(e, <<"Request would have succeeded, but DryRun flag is set.">>))
            => (~res[e].err /\ res[e].exists /\ ~res[e].upToDate)

C4_Witness ==
    \E e \in Engines :
        /\ Observed(e) /\ DescribedAs(e, "CREATE_COMPLETE") /\ res[e].upToDate
        /\ ProbedMessage(e, <<"Bad Request: No changes found in your cluster configuration.">>)
        /\ cr[e].condition = "Available"

\* describe-cluster exited non-zero with {"message": m}
DescribeFailedWith(e, m) ==
    /\ Described(e)
    /\ inv[e][1].resp.exit # 0
    /\ inv[e][1].resp.payload.kind = "msg"
    /\ inv[e][1].resp.payload.msg = m

\* the message begins with "Cluster '<name of e>' does not exist"
SaysNotFound(e, m) == HasPrefix(m, <<"Cluster '">> \o Name(e) \o <<"' does not exist">>)

\* describe-cluster exited non-zero with a not-found message for e's own name
DescribeNotFound(e) ==
    \E m \in Messages : SaysNotFound(e, m) /\ DescribeFailedWith(e, m)

\* C5: when describe-cluster exits non-zero with a message that begins with
\* "Cluster '<name>' does not exist", Observe returns exists=false without
\* error, makes no further invocation, and leaves the resource's status and
\* condition as they were.
C5_NotFoundIsAbsent ==
    /\ [](\A e \in Engines :
            DescribeNotFound(e) =>
                /\ pc[e] = "idle"
                /\ res[e] = Result("Observe", FALSE, FALSE, FALSE)
                /\ Len(inv[e]) = 1)
    /\ [][\A e \in Engines :
            (pc[e] = "describe" /\ DescribeNotFound(e)') =>
                (cr'[e] = cr[e] /\ fs' = fs)]_vars

C5_Witness ==
    \E e \in Engines :
        /\ DescribeFailedWith(e, <<"Cluster '">> \o Name(e) \o <<"' does not exist">> \o Suffix)
        /\ res[e].op = "Observe" /\ ~res[e].exists

\* C6: when describe-cluster exits non-zero with anything but a not-found
\* message for the resource's own name (another message, another cluster's
\* name, a payload that is not a JSON message, no output), Observe returns an
\* error.
C6_OtherDescribeFailuresAreErrors ==
    \A e \in Engines :
        (Described(e) /\ inv[e][1].resp.exit # 0 /\ ~DescribeNotFound(e)) =>
            (res[e].op = "Observe" /\ res[e].err /\ Len(inv[e]) = 1)

C6_Witness ==
    \E e \in Engines : \E o \in Engines \ {e} :
        /\ DescribeFailedWith(e, <<"Cluster '">> \o Name(o) \o <<"' does not exist">>)
        /\ res[e].op = "Observe" /\ res[e].err

\* C7: getErrorStatus classifies a decoded message in fixed priority order:
\* the not-found prefix for the given name gives clusterNotFound; otherwise the
\* no-changes message or the in-progress prefix gives clusterUpToDate;
\* otherwise the dry-run message gives clusterNotUpToDate; otherwise
\* emptyMessage.
C7_ClassifierPriority ==
    \A e \in Engines :
        (classified[e].called /\ classified[e].cmdOutput.kind = "msg") =>
            LET m == classified[e].cmdOutput.msg
                notFound == HasPrefix(m, <<"Cluster '">> \o classified[e].clusterName
                                           \o <<"' does not exist">>)
                upToDate ==
                    \/ m = <<"Bad Request: No changes found in your cluster configuration.">>
                    \/ HasPrefix(m, <<"Cannot execute update while stack is in">>)
                notUpToDate == m = <<"Request would have succeeded, but DryRun flag is set.">>
            IN  /\ ~classified[e].err
                /\ notFound => classified[e].status = "clusterNotFound"
                /\ (~notFound /\ upToDate) => classified[e].status = "clusterUpToDate"
                /\ (~notFound /\ ~upToDate /\ notUpToDate)
                      => classified[e].status = "clusterNotUpToDate"
                /\ (~notFound /\ ~upToDate /\ ~notUpToDate)
                      => classified[e].status = "emptyMessage"

C7_Witness ==
    \E e \in Engines :
        /\ classified[e].called
        /\ classified[e].cmdOutput = MsgPayload(<<"Cannot execute update while stack is in">> \o Suffix)
        /\ classified[e].status = "clusterUpToDate"

\* C8: when the dry-run update exits non-zero with a message that is neither
\* an up-to-date nor a not-up-to-date message, Observe returns an error.
C8_UnclassifiedProbeIsError ==
    \A e \in Engines : \A m \in Messages :
        (res[e].op = "Observe" /\ ProbedMessage(e, m)
           /\ m # <<"Bad Request: No changes found in your cluster configuration.">>
           /\ ~HasPrefix(m, <<"Cannot execute update while stack is in">>)
           /\ m # <<"Request would have succeeded, but DryRun flag is set.">>)
        => res[e].err

\* C9: when the dry-run update exits zero, Observe returns an error.
C9_ZeroExitProbeIsError ==
    \A e \in Engines :
        (res[e].op = "Observe" /\ Probed(e) /\ inv[e][2].resp.exit = 0) => res[e].err

\* C10: a workspace directory exists only while the operation that created it
\* is blocked in its command; once Create, Update, Delete or the probe has
\* returned, on any path, no directory is left.
C10_WorkspaceRemoved ==
    /\ \A f \in fs : \E e \in Engines : pc[e] \in Workspaced /\ ws[e] = f.dir
    /\ \A e \in Engines : pc[e] \notin Workspaced => ws[e] = NoDir

\* Create returned after writeConfigToFile failed in the directory it made
C10_Witness ==
    \E e \in Engines :
        /\ pc[e] = "idle" /\ res[e] = Failure("Create")
        /\ ext[e].dir # NoDir /\ Len(inv[e]) = 0
        /\ fs = {}

\* createTempDir or writeConfigToFile returned an error to resource e's operation
WorkspaceFailed(e) == materialized[e] \in {"mkdirfail", "createfail", "writefail"}

\* C11: when making the directory or writing the configuration file fails, the
\* operation has returned an error and has invoked no command for the
\* workspace: Create, Update and Delete have invoked nothing, and Observe only
\* the describe-cluster that returned before the workspace was attempted.
C11_NoCommandAfterWorkspaceFailure ==
    \A e \in Engines :
        WorkspaceFailed(e) =>
            /\ pc[e] = "idle"
            /\ res[e].err
            /\ Len(inv[e]) = (IF res[e].op = "Observe" THEN 1 ELSE 0)
            /\ \A i \in 1..Len(inv[e]) :
                   inv[e][i].verb = "describe-cluster" /\ inv[e][i].returned

\* the probe's configuration file could not be written after a describe
C11_Witness ==
    \E e \in Engines :
        /\ materialized[e] = "writefail"
        /\ res[e] = Failure("Observe")
        /\ Described(e) /\ inv[e][1].resp.exit = 0

\* this step ends with Observe, Create, Update or Delete returned with an error
ReturnsError(e) ==
    /\ pc'[e] = "idle"
    /\ res'[e].op \in {"Observe", "Create", "Update", "Delete"}
    /\ res'[e].err

\* this step belongs to an operation on e that has not returned yet
StillRunning(e) == pc'[e] \in {"describe", "probe", "create", "update", "delete"}

\* C12: a step in which Observe, Create, Update or Delete returns an error, and
\* every step of an operation before its return, leaves the observed status
\* fields and the availability condition of the resource as they were; so they
\* are, after an error, what they were before the call.
C12_ErrorLeavesStatus ==
    [][\A e \in Engines : (ReturnsError(e) \/ StillRunning(e)) => cr'[e] = cr[e]]_vars

\* Create failed on a payload that half decoded, on a resource whose status an
\* earlier operation had filled
C12_Witness ==
    \E e \in Engines :
        /\ res[e] = Failure("Create")
        /\ Len(inv[e]) = 1 /\ inv[e][1].returned
        /\ inv[e][1].resp.exit = 0
        /\ inv[e][1].resp.payload.kind = "badenvelope"
        /\ cr[e].atProvider.ClusterStatus = UpdateComplete

\* op has returned on resource e after its command exited zero with a
\* {"cluster": {...}} payload that decodes
ExitedZeroDecodable(e, op) ==
    /\ pc[e] = "idle"
    /\ res[e].op = op
    /\ Len(inv[e]) = 1
    /\ inv[e][1].returned
    /\ inv[e][1].resp.exit = 0
    /\ inv[e][1].resp.payload.kind = "envelope"

\* the four observed status fields of e equal those of the payload's cluster
StatusIsPayload(e) ==
    LET c == inv[e][1].resp.payload.cluster
        a == cr[e].atProvider
    IN  /\ a.ClusterName = c.ClusterName
        /\ a.CloudformationStackArn = c.CloudformationStackArn
        /\ a.ClusterStatus = c.ClusterStatus
        /\ a.SchedulerType = c.SchedulerType

\* C13: when create-cluster exits zero with a decodable payload, Create
\* returns without error and the resource's cluster name, stack ARN, cluster
\* status and scheduler type are those of the payload's cluster.
C13_CreateWritesStatus ==
    \A e \in Engines :
        ExitedZeroDecodable(e, "Create") => (~res[e].err /\ StatusIsPayload(e))

C13_Witness ==
    \E e \in Engines :
        /\ ExitedZeroDecodable(e, "Create")
        /\ cr[e].atProvider = ClusterOf(e, CreateInProgress)

\* C14: when update-cluster exits zero with a decodable payload, Update
\* returns without error and the resource's observed status fields are those
\* of the payload's cluster.
C14_UpdateWritesStatus ==
    \A e \in Engines :
        ExitedZeroDecodable(e, "Update") => (~res[e].err /\ StatusIsPayload(e))

\* C15: when delete-cluster exits zero with a decodable payload, Delete
\* returns without error and the resource's observed status fields are those
\* of the payload's cluster.
C15_DeleteWritesStatus ==
    \A e \in Engines :
        ExitedZeroDecodable(e, "Delete") => (~res[e].err /\ StatusIsPayload(e))

\* C16: no step of Connect, Observe, Create, Update, Delete or the probe
\* changes the PATH of the provider process.
C16_ProcessPathUntouched == [][procPATH' = procPATH]_vars

\* Observe returns on resource e in this step
ObserveReturns(e) == pc[e] \in {"describe", "probe"} /\ pc'[e] = "idle"

\* C17: when Observe returns having got the same responses as the Observe
\* before it on that resource, with no Create, Update or Delete in between,
\* it returns the same result (error, exists, upToDate) and leaves the same
\* observed status fields and availability condition as that Observe did.
C17_ObserveIdempotent ==
    [][\A e \in Engines :
          (ObserveReturns(e) /\ last[e].valid /\ Resps(inv'[e]) = last[e].resps)
          => (res'[e] = last[e].res /\ cr'[e] = last[e].cr)]_vars

\* a second Observe got the same describe and probe responses as the first and
\* reported an existing cluster
C17_Witness ==
    \E e \in Engines :
        /\ last[e].again
        /\ Len(last[e].resps) = 2
        /\ last[e].res = Result("Observe", FALSE, TRUE, TRUE)
        /\ cr[e].condition = "Available"

\* the command now running for resource e has e's workspace directory as its
\* working directory, where the configuration file name it may be given resolves
RunsInWorkspace(e) ==
    /\ Len(inv[e]) >= 1
    /\ ~inv[e][Len(inv[e])].returned
    /\ inv[e][Len(inv[e])].dir = ws[e]

\* C18: while a command that execute started runs, from the
\* moment it is invoked, its working directory holds the configuration file
\* and the file's content is the resource's configuration document, whatever
\* the document is, the empty one included.
C18_ConfigFileIsDocument ==
    \A e \in Engines :
        pc[e] \in Workspaced =>
            /\ RunsInWorkspace(e)
            /\ \E f \in fs : f.dir = ws[e] /\ f.hasFile /\ f.content = doc[e]

\* create-cluster runs for the resource whose document is empty
C18_Witness ==
    \E e \in Engines :
        /\ pc[e] = "create"
        /\ doc[e] = <<>>
        /\ RunsInWorkspace(e)
        /\ \E f \in fs : f.dir = ws[e] /\ f.hasFile /\ f.content = <<>>

\* the first command of resource e's returned operation `op` exited zero with
\* a payload of one of `kinds`
ExitedZeroWith(e, op, kinds) ==
    /\ pc[e] = "idle"
    /\ res[e].op = op
    /\ Len(inv[e]) >= 1
    /\ inv[e][1].returned
    /\ inv[e][1].resp.exit = 0
    /\ inv[e][1].resp.payload.kind \in kinds

\* C19: an operation returns an error when describe-cluster, create-cluster,
\* update-cluster or delete-cluster exited zero with a payload that
\* json.Unmarshal rejects (no bytes, not JSON, or a field of the wrong type),
\* and when the dry-run update exited non-zero with an error payload that
\* json.Unmarshal rejects.
C19_DecodeFailureIsError ==
    \A e \in Engines :
        /\ ExitedZeroWith(e, "Observe", {"empty", "garbage", "badtime", "badstatus"})
               => res[e].err
        /\ \A op \in {"Create", "Update", "Delete"} :
               ExitedZeroWith(e, op, {"empty", "garbage", "badenvelope"}) => res[e].err
        /\ (res[e].op = "Observe" /\ Probed(e) /\ inv[e][2].resp.exit # 0
              /\ inv[e][2].resp.payload.kind \in {"garbage", "msgtype"})
               => res[e].err

\* C20: with PYTHON_VENV_PATH unset, Connect returns no error, and for a
\* connected resource the PATH of the process and the PATH handed to each
\* command are the PATH the process had at Connect, and a command with no
\* working directory to miss starts.
C20_UnsetKeepsAmbientPath ==
    venv = "unset" =>
        \A e \in Engines :
            /\ res[e].op = "Connect" => ~res[e].err
            /\ pc[e] # "none" =>
                 /\ procPATH = ext[e].env.ambient
                 /\ \A i \in 1..Len(inv[e]) :
                        /\ inv[e][i].path = ext[e].env.ambient
                        /\ inv[e][i].dir = NoDir => inv[e][i].started

\* C21: the working directory of every running command is unset or is the
\* workspace that the operation in flight made, which exists; no command runs
\* in the directory of an earlier operation.
C21_DirIsCurrentWorkspace ==
    \A e \in Engines : \A i \in 1..Len(inv[e]) :
        ~inv[e][i].returned =>
            \/ inv[e][i].dir = NoDir
            \/ inv[e][i].dir = ws[e] /\ inv[e][i].dir \in Dirs(fs)

\* C22: the dry-run probe is update-cluster with the arguments of Update,
\* --cluster-configuration, --cluster-name and --region with the resource's
\* region, plus --dryrun true.
C22_ProbeArgsAreUpdateArgs ==
    \A e \in Engines : \A i \in 1..Len(inv[e]) :
        inv[e][i].dryrun =>
            /\ inv[e][i].verb = "update-cluster"
            /\ inv[e][i].config
            /\ inv[e][i].name = Name(e)
            /\ inv[e][i].region = Region(e)

\* C23: every command of Observe, Create, Update and Delete carries the
\* resource's own, non-empty name as --cluster-name.
C23_NameInEveryInvocation ==
    \A e \in Engines : \A i \in 1..Len(inv[e]) :
        inv[e][i].name = Name(e) /\ inv[e][i].name # <<>>

\* the second resource's Observe has invoked describe-cluster and the probe
C23_Witness ==
    /\ pc[2] = "probe"
    /\ Len(inv[2]) = 2
    /\ inv[2][1].name = <<"t", "2">>
    /\ inv[2][2].name = <<"t", "2">>

\* resource e's current or last operation is Observe
InObserve(e) ==
    \/ pc[e] \in {"describe", "probe"}
    \/ pc[e] = "idle" /\ res[e].op = "Observe"

\* C24: the commands of an Observe are describe-cluster and update-cluster
\* with --dryrun true, and nothing else.
C24_ObserveOnlyReads ==
    \A e \in Engines :
        InObserve(e) =>
            \A i \in 1..Len(inv[e]) :
                \/ inv[e][i].verb = "describe-cluster"
                \/ inv[e][i].verb = "update-cluster" /\ inv[e][i].dryrun

\* an Observe whose probe was started and has returned
C24_Witness ==
    \E e \in Engines :
        /\ pc[e] = "idle" /\ res[e].op = "Observe"
        /\ Probed(e) /\ inv[e][2].started
        /\ inv[e][2].verb = "update-cluster"

\* resource e's current or last operation is Create, Update or Delete
InMutation(e) ==
    \/ pc[e] \in {"create", "update", "delete"}
    \/ pc[e] = "idle" /\ res[e].op \in {"Create", "Update", "Delete"}

\* C25: a Create, Update or Delete has invoked the tool at most once; an
\* Observe has invoked describe-cluster once, first, and the probe at most
\* once after it; only the last command of an operation in flight can still
\* be running, and none is when the operation has returned.
C25_NoRetry ==
    \A e \in Engines :
        /\ InMutation(e) => Len(inv[e]) <= 1
        /\ InObserve(e) =>
             /\ Len(inv[e]) \in {1, 2}
             /\ inv[e][1].verb = "describe-cluster"
             /\ Len(inv[e]) = 2 => (inv[e][2].verb = "update-cluster" /\ inv[e][2].dryrun)
        /\ \A i \in 1..Len(inv[e]) :
             (pc[e] = "idle" \/ i < Len(inv[e])) => inv[e][i].returned

\* Create returned the failure of its one create-cluster command
C25_Witness ==
    \E e \in Engines :
        /\ pc[e] = "idle" /\ res[e] = Failure("Create")
        /\ Len(inv[e]) = 1
        /\ inv[e][1].started /\ inv[e][1].returned
        /\ inv[e][1].resp.exit # 0

InProgressStatuses == {"CREATE_IN_PROGRESS", "UPDATE_IN_PROGRESS", "DELETE_IN_PROGRESS"}

\* the probe of resource e's Observe is running after describe-cluster gave
\* an in-progress status
ProbingInProgress(e) ==
    pc[e] = "probe" /\ \E s \in InProgressStatuses : DescribedAs(e, s)

\* C26: no step of an Observe whose describe-cluster succeeded with
\* CreateInProgress, UpdateInProgress or DeleteInProgress changes the
\* availability condition: not the steps up to the probe, and not the return.
C26_InProgressKeepsCondition ==
    [][\A e \in Engines :
          (pc'[e] \in {"describe", "probe"} \/ ProbingInProgress(e))
          => cr'[e].condition = cr[e].condition]_vars

\* Observe saw UpdateInProgress on a resource that was Available
C26_Witness ==
    \E e \in Engines :
        /\ Observed(e) /\ DescribedAs(e, "UPDATE_IN_PROGRESS")
        /\ res[e].exists
        /\ cr[e].atProvider.ClusterStatus = "UPDATE_IN_PROGRESS"
        /\ cr[e].condition = "Available"

\* C28: with PYTHON_VENV_PATH set and no bin/pcluster under it, Connect
\* returns an error, no resource gets an external client and no command is
\* invoked; with bin/pcluster present, the PATH kept in the client and the
\* PATH handed to its commands begin with <venv>/bin.
C28_VenvChecked ==
    /\ venv = "absent" =>
         \A e \in Engines :
             /\ pc[e] = "none"
             /\ ext[e] = ZeroExternal
             /\ inv[e] = <<>>
             /\ res[e].op = "Connect" => res[e].err
    /\ venv = "present" =>
         \A e \in Engines :
             pc[e] # "none" =>
                 /\ ext[e].path # <<>> /\ ext[e].path[1] = "/venv/bin"
                 /\ ChildPath(ext[e])[1] = "/venv/bin"
                 /\ \A i \in 1..Len(inv[e]) : inv[e][i].path[1] = "/venv/bin"

\* Connect has failed because <venv>/bin/pcluster is absent
C28_Witness ==
    \E e \in Engines :
        venv = "absent" /\ res[e] = Failure("Connect") /\ pc[e] = "none"

Killed(e) == Len(inv[e]) >= 1 /\ inv[e][Len(inv[e])].killed

\* C29: when its command was killed because ctx was cancelled, the operation
\* has returned an error once it has returned, its workspace is gone and none
\* of its commands is still running.
C29_CancelledReturnsFailure ==
    \A e \in Engines :
        (pc[e] = "idle" /\ Killed(e)) =>
            /\ res[e].err
            /\ ws[e] = NoDir
            /\ \A f \in fs : f.dir # inv[e][Len(inv[e])].dir
            /\ \A i \in 1..Len(inv[e]) : inv[e][i].returned

\* resource e has a command running in directory d
RunsIn(e, d) ==
    \E i \in 1..Len(inv[e]) :
        inv[e][i].started /\ ~inv[e][i].returned /\ inv[e][i].dir = d

\* C27: a command of one resource never runs in the workspace of a command
\* in flight for another resource, and the workspace of every operation in
\* flight exists, whatever the other resource's operations have removed.
C27_WorkspacesDisjoint ==
    \A e1 \in Engines : \A e2 \in Engines \ {e1} :
        /\ pc[e2] \in Workspaced => ~RunsIn(e1, ws[e2])
        /\ pc[e1] \in Workspaced => ws[e1] \in Dirs(fs)

====
